---- MODULE Spec2Model ----
(***************************************************************************)
(* HireRank: the candidate-details view (found / missing skills and their  *)
(* category breakdown), the home page upload flow, and the fit scoring     *)
(* engine behind the analyze request.                                      *)
(***************************************************************************)
EXTENDS Integers, Sequences, FiniteSets, TLC

(***************************************************************************)
(* Bounds of the model.                                                    *)
(***************************************************************************)
\* longest skills / expected_skills array of a result
MaxLen == 2
\* longest skills_found / skills_missing array supplied by the server
MaxSupplied == 1
\* longest job title typed into the form
MaxTitle == 1
\* analyze requests that can be awaiting their response at once
MaxPending == 2
\* most expected skills of a job requirement
MaxExpected == 4
\* most skills of a resume in the variations of scenario A
MaxScenarioResume == 3
\* highest match_score of a stored candidate
MaxScore == 100
\* requests of the Leaderboard that can be awaiting their response at once
MaxInFlight == 2

(***************************************************************************)
(* JavaScript strings are sequences of one-character strings.              *)
(***************************************************************************)
UpperToLower ==
  [A |-> "a", B |-> "b", C |-> "c", D |-> "d", E |-> "e", F |-> "f", G |-> "g", H |-> "h", I |-> "i", J |-> "j", K |-> "k", L |-> "l", M |-> "m", N |-> "n", O |-> "o", P |-> "p", Q |-> "q", R |-> "r", S |-> "s", T |-> "t", U |-> "u", V |-> "v", W |-> "w", X |-> "x", Y |-> "y", Z |-> "z"]

toLowerChar(c) == IF c \in DOMAIN UpperToLower THEN UpperToLower[c] ELSE c

\* String.prototype.toLowerCase
toLowerCase(s) == [i \in 1..Len(s) |-> toLowerChar(s[i])]

\* String.prototype.includes: k occurs in s as a contiguous substring
includes(s, k) ==
  \E i \in 0..(Len(s) - Len(k)) : SubSeq(s, i + 1, i + Len(k)) = k

\* Array.prototype.includes: x is an element of the array
arrayIncludes(arr, x) == \E i \in 1..Len(arr) : arr[i] = x

\* Array.prototype.some over an array of strings
some(arr, P(_)) == \E i \in 1..Len(arr) : P(arr[i])

ToSet(arr) == {arr[i] : i \in 1..Len(arr)}

\* all arrays over S of length at most n
SeqUpTo(S, n) == UNION {[1..k -> S] : k \in 0..n}

(***************************************************************************)
(* An optional field of a JSON object: <<>> when the field is absent       *)
(* (undefined / null), <<v>> when it holds v.  An array, even an empty     *)
(* one, is truthy.                                                         *)
(***************************************************************************)
None == <<>>
Some(v) == <<v>>
Truthy(opt) == opt # None
Val(opt) == opt[1]
\* opt || dflt
OrElse(opt, dflt) == IF Truthy(opt) THEN Val(opt) ELSE dflt
Opt(S) == {None} \cup {Some(v) : v \in S}

(***************************************************************************)
(* Skill names used as inputs.                                             *)
(***************************************************************************)
Java == <<"J","a","v","a">>
JavaScript == <<"J","a","v","a","S","c","r","i","p","t">>
MongoDB == <<"M","o","n","g","o","D","B">>
Leadership == <<"L","e","a","d","e","r","s","h","i","p">>
SkillNames == {Java, JavaScript, MongoDB, Leadership}

\* the skills of the resume and of the job of scenario A; a resume may
\* spell a skill in another case
Python == <<"P","y","t","h","o","n">>
pythonLower == <<"p","y","t","h","o","n">>
React == <<"R","e","a","c","t">>
Docker == <<"D","o","c","k","e","r">>
AWS == <<"A","W","S">>
ScenarioExpectedNames == {Python, React, Docker, AWS}
ScenarioResumeNames == ScenarioExpectedNames \cup {pythonLower}

(***************************************************************************)
(* CandidateDetails: categorizeSkills                                      *)
(***************************************************************************)
\* Object.entries order of categories / categoryKeywords
CategoryOrder == <<"frontend", "backend", "database", "infrastructure">>
Categories == ToSet(CategoryOrder)

categoryKeywords ==
  [ frontend |-> <<
      <<"r","e","a","c","t">>,
      <<"a","n","g","u","l","a","r">>,
      <<"v","u","e">>,
      <<"h","t","m","l">>,
      <<"c","s","s">>,
      <<"j","a","v","a","s","c","r","i","p","t">>,
      <<"t","y","p","e","s","c","r","i","p","t">>,
      <<"j","q","u","e","r","y">>,
      <<"b","o","o","t","s","t","r","a","p">>,
      <<"t","a","i","l","w","i","n","d">>,
      <<"s","a","s","s">>,
      <<"w","e","b","p","a","c","k">>,
      <<"v","i","t","e">>,
      <<"n","e","x","t",".","j","s">>,
      <<"s","v","e","l","t","e">>
    >>
  , backend |-> <<
      <<"d","j","a","n","g","o">>,
      <<"f","l","a","s","k">>,
      <<"f","a","s","t","a","p","i">>,
      <<"n","o","d","e",".","j","s">>,
      <<"e","x","p","r","e","s","s">>,
      <<"s","p","r","i","n","g">>,
      <<"j","a","v","a">>,
      <<"p","y","t","h","o","n">>,
      <<"r","u","b","y">>,
      <<"p","h","p">>,
      <<"l","a","r","a","v","e","l">>,
      <<".","n","e","t">>,
      <<"g","o">>,
      <<"r","u","s","t">>,
      <<"s","c","a","l","a">>,
      <<"k","o","t","l","i","n">>
    >>
  , database |-> <<
      <<"s","q","l">>,
      <<"m","y","s","q","l">>,
      <<"p","o","s","t","g","r","e","s","q","l">>,
      <<"m","o","n","g","o","d","b">>,
      <<"r","e","d","i","s">>,
      <<"c","a","s","s","a","n","d","r","a">>,
      <<"o","r","a","c","l","e">>,
      <<"d","y","n","a","m","o","d","b">>,
      <<"e","l","a","s","t","i","c","s","e","a","r","c","h">>,
      <<"n","e","o","4","j">>,
      <<"m","a","r","i","a","d","b">>,
      <<"f","i","r","e","b","a","s","e">>,
      <<"p","a","n","d","a","s">>,
      <<"n","u","m","p","y">>
    >>
  , infrastructure |-> <<
      <<"a","w","s">>,
      <<"a","z","u","r","e">>,
      <<"g","c","p">>,
      <<"d","o","c","k","e","r">>,
      <<"k","u","b","e","r","n","e","t","e","s">>,
      <<"j","e","n","k","i","n","s">>,
      <<"g","i","t","l","a","b">>,
      <<"g","i","t","h","u","b"," ","a","c","t","i","o","n","s">>,
      <<"t","e","r","r","a","f","o","r","m">>,
      <<"a","n","s","i","b","l","e">>,
      <<"n","g","i","n","x">>,
      <<"a","p","a","c","h","e">>,
      <<"l","i","n","u","x">>,
      <<"c","i","/","c","d">>,
      <<"d","e","v","o","p","s">>
    >>
  ]

backendPatterns ==
  << <<"m","l">>,
     <<"l","e","a","r","n","i","n","g">>,
     <<"a","i">>,
     <<"t","e","n","s","o","r","f","l","o","w">>,
     <<"p","y","t","o","r","c","h">>,
     <<"k","e","r","a","s">>,
     <<"s","c","i","k","i","t">>,
     <<"n","l","p">> >>
frontendPatterns ==
  << <<"v","i","s","u","a","l">>,
     <<"p","l","o","t">>,
     <<"m","a","t","p","l","o","t","l","i","b">>,
     <<"s","e","a","b","o","r","n">> >>
infrastructurePatterns ==
  << <<"j","u","p","y","t","e","r">>,
     <<"n","o","t","e","b","o","o","k">> >>

\* line 141: the test applied to one keyword of a category
MatchesKeyword(skillLower, keyword) ==
  includes(skillLower, keyword) \/ includes(keyword, skillLower)

\* lines 140-146: the first category, in Object.entries order, one of whose
\* keywords matches; 0 when the loop ends with categorized = false
FirstCategory(skillLower) ==
  LET hit == {i \in 1..Len(CategoryOrder) :
                some(categoryKeywords[CategoryOrder[i]],
                     LAMBDA keyword : MatchesKeyword(skillLower, keyword))}
  IN IF hit = {} THEN 0 ELSE CHOOSE i \in hit : \A j \in hit : i <= j

\* lines 136-160: the bucket one skill is pushed to, "" when it is pushed
\* to none
BucketOf(skill) ==
  LET skillLower == toLowerCase(skill)
      i == FirstCategory(skillLower)
  IN IF i # 0 THEN CategoryOrder[i]
     ELSE IF some(backendPatterns, LAMBDA p : includes(skillLower, p))
       THEN "backend"
     ELSE IF some(frontendPatterns, LAMBDA p : includes(skillLower, p))
       THEN "frontend"
     ELSE IF some(infrastructurePatterns, LAMBDA p : includes(skillLower, p))
       THEN "infrastructure"
     ELSE ""

\* the bucket of every skill name of the model
Buckets == [skill \in SkillNames \cup ScenarioResumeNames |-> BucketOf(skill)]

\* lines 121-164: forEach pushes in list order, so each bucket keeps the
\* order of skillsList
categorizeSkills(skillsList) ==
  [c \in Categories |-> SelectSeq(skillsList, LAMBDA skill : Buckets[skill] = c)]

(***************************************************************************)
(* CandidateDetails: displaySkillsFound / displaySkillsMissing             *)
(***************************************************************************)
\* line 108
SkillsLower(skills) == [i \in 1..Len(skills) |-> toLowerCase(skills[i])]

\* the filters' test with substring containment in place of array membership
InResumeBySubstring(skillsLower, s) ==
  \E i \in 1..Len(skillsLower) : includes(skillsLower[i], toLowerCase(s))

\* the filters' test against the first resume skill only
InResumeFirstOnly(skillsLower, s) ==
  Len(skillsLower) > 0 /\ skillsLower[1] = toLowerCase(s)

\* the filters' test without lower-casing the expected skill
InResumeCaseSensitive(skillsLower, s) == arrayIncludes(skillsLower, s)

\* lines 109-110: the test of the two filters
InResume(skillsLower, s) == arrayIncludes(skillsLower, toLowerCase(s))

\* which of the three cases of lines 104-114 a result takes
DisplayCase(r) ==
  IF Truthy(r.skills_found) THEN "supplied"
  ELSE IF Truthy(r.skills) /\ Truthy(r.expected_skills) THEN "computed"
  ELSE "fallback"

\* lines 104-117
SkillsFoundOf(r) ==
  CASE DisplayCase(r) = "supplied" -> Val(r.skills_found)
    [] DisplayCase(r) = "computed" ->
         LET skillsLower == SkillsLower(Val(r.skills))
         IN SelectSeq(Val(r.expected_skills),
                      LAMBDA s : InResume(skillsLower, s))
    [] OTHER -> OrElse(r.skills, <<>>)

\* lines 105-118
SkillsMissingOf(r) ==
  CASE DisplayCase(r) = "supplied" -> OrElse(r.skills_missing, <<>>)
    [] DisplayCase(r) = "computed" ->
         LET skillsLower == SkillsLower(Val(r.skills))
         IN SelectSeq(Val(r.expected_skills),
                      LAMBDA s : ~InResume(skillsLower, s))
    [] OTHER -> OrElse(r.skills_missing, <<>>)

\* The field of the result each displayed list takes its elements from
\* ("" for the literal []), and the origin of the category breakdown
\* (always the categoryKeywords table of the component, lines 129-134).
FoundSourceOf(r) ==
  CASE DisplayCase(r) = "supplied" -> "skills_found"
    [] DisplayCase(r) = "computed" -> "expected_skills"
    [] OTHER -> IF Truthy(r.skills) THEN "skills" ELSE ""

MissingSourceOf(r) ==
  CASE DisplayCase(r) = "computed" -> "expected_skills"
    [] OTHER -> IF Truthy(r.skills_missing) THEN "skills_missing" ELSE ""

(***************************************************************************)
(* The results a candidate record can carry.  Every field is optional.     *)
(* The fields the server sends agree with each other as the engine's       *)
(* output does: supplied analysis lists (skills_found) come with           *)
(* skills_missing, are disjoint and together are the expected skills; a    *)
(* missing skill is an expected skill and no resume skill; a found skill   *)
(* is a resume skill.                                                      *)
(***************************************************************************)
Disjoint(a, b) == ToSet(a) \cap ToSet(b) = {}

SameSkill(s, t) == toLowerCase(s) = toLowerCase(t)

ServerConsistent(r) ==
  /\ Truthy(r.skills_found) =>
       /\ Truthy(r.skills_missing)
       /\ Disjoint(Val(r.skills_found), Val(r.skills_missing))
       /\ Truthy(r.expected_skills) =>
            ToSet(Val(r.expected_skills)) =
              ToSet(Val(r.skills_found)) \cup ToSet(Val(r.skills_missing))
       /\ Truthy(r.skills) =>
            \A s \in ToSet(Val(r.skills_found)) :
              \E t \in ToSet(Val(r.skills)) : SameSkill(s, t)
  /\ (Truthy(r.skills_missing) /\ Truthy(r.expected_skills)) =>
       ToSet(Val(r.skills_missing)) \subseteq ToSet(Val(r.expected_skills))
  /\ (Truthy(r.skills_missing) /\ Truthy(r.skills)) =>
       \A s \in ToSet(Val(r.skills_missing)) :
         \A t \in ToSet(Val(r.skills)) : ~SameSkill(s, t)

Results ==
  {r \in [skills_found    : Opt(SeqUpTo(SkillNames, MaxSupplied)),
          skills_missing  : Opt(SeqUpTo(SkillNames, MaxSupplied)),
          skills          : Opt(SeqUpTo(SkillNames, MaxLen)),
          expected_skills : Opt(SeqUpTo(SkillNames, MaxLen))] :
     ServerConsistent(r)}

\* the arrays that hold every element of the set S once
ArraysOf(S) ==
  {arr \in [1..Cardinality(S) -> S] : \A i, j \in DOMAIN arr : arr[i] = arr[j] => i = j}

\* the records of scenario A and its variations: resume skills and expected
\* skills without repetition, found / missing left to the view
ScenarioResults ==
  {[skills_found |-> None, skills_missing |-> None,
    skills |-> Some(resume), expected_skills |-> Some(job)] :
     resume \in UNION {ArraysOf(S) : S \in {T \in SUBSET ScenarioResumeNames :
                                               Cardinality(T) <= MaxScenarioResume}},
     job \in UNION {ArraysOf(S) : S \in SUBSET ScenarioExpectedNames}}

(***************************************************************************)
(* State                                                                   *)
(***************************************************************************)
VARIABLES
  \* CandidateDetails
  cdResult,                  \* useState(location.state?.result || null)
  displaySkillsFound,
  displaySkillsMissing,
  categorizedSkillsFound,
  categorizedSkillsMissing,
  \* HomePage
  result,                    \* useState(null)
  loading,                   \* useState(false)
  error,                     \* useState(null)
  \* UploadSection
  selectedFile,              \* useState(null)
  jobTitle,                  \* useState('')
  jobDescription,            \* useState('')
  showFullDescription,       \* useState(false)
  \* analyzeResume calls awaiting their response, and the router's location
  pending,
  path,
  \* scoring engine, one request
  phase,                     \* idle, running, aggregated, returned
  expected,                  \* number of expected skills
  matched,                   \* number of them the matcher found
  tax, sim, gen,             \* pending, ok, failed, disabled
  similarity,                \* sub-score of the similarity scorer
  genAttempts,               \* calls of the generative capability so far
  genErrors,                 \* the errors of the failed calls, in order
  fitScore,                  \* the aggregator's output
  rationale,
  outcome,                   \* what the request returned
  barWidth,                  \* width of the ProgressBar fill showing the score
  scoreViews,                \* what the components that show a score render
  \* Leaderboard
  rankings,                  \* useState([])
  lbLoading,                 \* useState(true)
  lbError,                   \* useState(null)
  filterJobTitle,            \* useState('')
  editingRemarks,            \* useState(null)
  remarksValue,              \* useState('')
  deleteConfirm,             \* useState(null)
  \* the candidates the server stores, and the requests of the Leaderboard
  \* and their responses in flight
  serverCandidates,
  inflight,
  \* History and CandidatesList: loading, error and the fetched list of
  \* each, and its getHistory request
  loaders

viewVars == <<cdResult, displaySkillsFound, displaySkillsMissing,
              categorizedSkillsFound, categorizedSkillsMissing>>

homeVars == <<result, loading, error, selectedFile, jobTitle, jobDescription,
              showFullDescription, pending, path>>

engineVars == <<phase, expected, matched, tax, sim, gen, similarity,
                genAttempts, genErrors, fitScore, rationale, outcome, barWidth,
                scoreViews>>

boardVars == <<rankings, lbLoading, lbError, filterJobTitle, editingRemarks,
               remarksValue, deleteConfirm, serverCandidates, inflight>>

loaderVars == <<loaders>>

vars == <<viewVars, homeVars, engineVars, boardVars, loaderVars>>

(***************************************************************************)
(* CandidateDetails                                                        *)
(***************************************************************************)
ViewInit ==
  /\ cdResult = None
  /\ displaySkillsFound = <<>>
  /\ displaySkillsMissing = <<>>
  /\ categorizedSkillsFound = categorizeSkills(<<>>)
  /\ categorizedSkillsMissing = categorizeSkills(<<>>)

\* CandidatesList.handleCandidateClick navigates to /candidates-details with
\* state { result: candidate }; CandidateDetails mounts and renders it.
ShowCandidate(r) ==
  /\ cdResult = None
  /\ cdResult' = Some(r)
  /\ displaySkillsFound' = SkillsFoundOf(r)
  /\ displaySkillsMissing' = SkillsMissingOf(r)
  /\ categorizedSkillsFound' = categorizeSkills(SkillsFoundOf(r))
  /\ categorizedSkillsMissing' = categorizeSkills(SkillsMissingOf(r))
  /\ UNCHANGED <<homeVars, engineVars, boardVars, loaderVars>>

\* handleBackToHome: navigate('/candidates') unmounts the component
handleBackToHome ==
  /\ cdResult # None
  /\ cdResult' = None
  /\ displaySkillsFound' = <<>>
  /\ displaySkillsMissing' = <<>>
  /\ categorizedSkillsFound' = categorizeSkills(<<>>)
  /\ categorizedSkillsMissing' = categorizeSkills(<<>>)
  /\ UNCHANGED <<homeVars, engineVars, boardVars, loaderVars>>



(***************************************************************************)
(* String.prototype.trim, the form's inputs and the uploaded files         *)
(***************************************************************************)
trim(s) ==
  LET kept == {i \in 1..Len(s) : s[i] # " "}
  IN IF kept = {} THEN <<>>
     ELSE SubSeq(s, CHOOSE i \in kept : \A j \in kept : i <= j,
                    CHOOSE i \in kept : \A j \in kept : j <= i)

Titles == SeqUpTo({" ", "a"}, MaxTitle)
\* the description left empty, typed as blanks only, and typed with padding
Descriptions == {<<>>, <<" ">>, <<"d", " ">>}

validTypes ==
  {"application/pdf",
   "application/vnd.openxmlformats-officedocument.wordprocessingml.document",
   "application/msword", "image/jpeg", "image/jpg", "image/png"}

maxSize == 10 * 1024 * 1024

Files == [type : {"application/pdf", "text/plain"},
          size : {maxSize, maxSize + 1}]

\* the responses of the server, told apart by the id of the stored analysis
AnalysisIds == {"analysis-1", "analysis-2"}

\* the paths of <Routes> in App
RoutePaths == {"/", "/candidates", "/candidates-details", "/leaderboard", "/history"}

\* the element each <Route> renders
RouteElement ==
  [p \in RoutePaths |->
     CASE p = "/" -> "HomePage"
       [] p = "/candidates" -> "CandidatesList"
       [] p = "/candidates-details" -> "CandidateDetails"
       [] p = "/leaderboard" -> "Leaderboard"
       [] OTHER -> "History"]

(***************************************************************************)
(* HomePage handlers, as functions of the page's state                     *)
(***************************************************************************)
HomeState == [result |-> result, loading |-> loading, error |-> error]

handleAnalysisComplete(hp, data) ==
  [hp EXCEPT !.result = Some(data), !.error = None]

handleAnalysisStart(hp) ==
  [hp EXCEPT !.loading = TRUE, !.error = None, !.result = None]

\* handleAnalysisEnd that leaves loading as it is
handleAnalysisEndKeepsLoading(hp) == hp

handleAnalysisEnd(hp) == [hp EXCEPT !.loading = FALSE]

handleError(hp, errorMessage) ==
  [hp EXCEPT !.error = Some(errorMessage), !.loading = FALSE]

SetHome(hp) ==
  /\ result' = hp.result
  /\ loading' = hp.loading
  /\ error' = hp.error

HomeInit ==
  /\ result = None
  /\ loading = FALSE
  /\ error = None
  /\ selectedFile = None
  /\ jobTitle = <<>>
  /\ jobDescription = <<>>
  /\ showFullDescription = FALSE
  /\ pending = <<>>
  /\ path = "/"

OnHome == path = "/"

\* the disabled prop of UploadSection
disabled == loading

(***************************************************************************)
(* UploadSection                                                           *)
(***************************************************************************)
\* onChange of the job title input
setJobTitle(v) ==
  /\ OnHome /\ ~disabled
  /\ jobTitle' = v
  /\ UNCHANGED <<result, loading, error, selectedFile, jobDescription,
                 showFullDescription, pending, path, viewVars, engineVars, boardVars, loaderVars>>

\* the toggle of the optional description section
toggleFullDescription ==
  /\ OnHome
  /\ showFullDescription' = ~showFullDescription
  /\ UNCHANGED <<result, loading, error, selectedFile, jobTitle, jobDescription,
                 pending, path, viewVars, engineVars, boardVars, loaderVars>>

\* onChange of the description textarea, rendered when the section is open
setJobDescription(v) ==
  /\ OnHome /\ ~disabled /\ showFullDescription
  /\ jobDescription' = v
  /\ UNCHANGED <<result, loading, error, selectedFile, jobTitle,
                 showFullDescription, pending, path, viewVars, engineVars, boardVars, loaderVars>>

\* validateAndSetFile, reached from handleFileChange and handleDrop; the
\* dropzone and its file input are rendered while no file is selected
validateAndSetFile(file) ==
  /\ OnHome /\ selectedFile = None
  /\ IF file.type \notin validTypes
       THEN /\ SetHome(handleError(HomeState,
                 "Please upload a PDF, DOCX, or image file (JPG, PNG) only"))
            /\ UNCHANGED selectedFile
     ELSE IF file.size > maxSize
       THEN /\ SetHome(handleError(HomeState, "File size must be less than 10MB"))
            /\ UNCHANGED selectedFile
     ELSE /\ selectedFile' = Some(file)
          /\ UNCHANGED <<result, loading, error>>
  /\ UNCHANGED <<jobTitle, jobDescription, showFullDescription, pending, path,
                 viewVars, engineVars, boardVars, loaderVars>>

removeFile ==
  /\ OnHome /\ ~disabled /\ selectedFile # None
  /\ selectedFile' = None
  /\ UNCHANGED <<result, loading, error, jobTitle, jobDescription,
                 showFullDescription, pending, path, viewVars, engineVars, boardVars, loaderVars>>

\* the job title test of handleSubmit with the trim left out
TitleMissingUntrimmed(title) == title = <<>>

\* line 75: !jobTitle.trim()
TitleMissing(title) == trim(title) = <<>>

\* lines 82-86: the arguments of analyzeResume; live is cleared when the
\* HomePage that awaits the response unmounts
Request ==
  [file |-> Val(selectedFile), jobTitle |-> jobTitle,
   jobDescription |-> IF trim(jobDescription) # <<>>
                        THEN Some(trim(jobDescription)) ELSE None,
   live |-> TRUE]

\* handleSubmit up to its await: a submit event of the form, which is
\* disabled as a whole while loading
handleSubmit ==
  /\ OnHome /\ ~disabled
  /\ IF selectedFile = None
       THEN /\ SetHome(handleError(HomeState, "Please select a resume file"))
            /\ UNCHANGED pending
     ELSE IF TitleMissing(jobTitle)
       THEN /\ SetHome(handleError(HomeState, "Please enter a job title"))
            /\ UNCHANGED pending
     ELSE /\ Len(pending) < MaxPending
          /\ SetHome(handleAnalysisStart(HomeState))
          /\ pending' = Append(pending, Request)
  /\ UNCHANGED <<selectedFile, jobTitle, jobDescription, showFullDescription,
                 path, viewVars, engineVars, boardVars, loaderVars>>

Without(seq, i) == SubSeq(seq, 1, i - 1) \o SubSeq(seq, i + 1, Len(seq))

\* when HomePage unmounts, the responses still awaited find no page
Detached(seq) == [i \in 1..Len(seq) |-> [seq[i] EXCEPT !.live = FALSE]]

\* the state a HomePage and its UploadSection mount with; an unmounted page
\* has no state, and the variables hold this one until the next mount
Unmounted ==
  /\ result' = None
  /\ loading' = FALSE
  /\ error' = None
  /\ selectedFile' = None
  /\ jobTitle' = <<>>
  /\ jobDescription' = <<>>
  /\ showFullDescription' = FALSE

\* handleSubmit after its await, the request resolved with data (lines 87-99):
\* the page's handlers and the form's setters run, then navigate goes to
\* /candidate-details and HomePage unmounts, its state being what they wrote.
\* A response whose page is gone only navigates.
AnalyzeResolves(i, data) ==
  /\ i \in 1..Len(pending)
  /\ IF pending[i].live
       THEN /\ SetHome(handleAnalysisEnd(handleAnalysisComplete(HomeState, data)))
            /\ selectedFile' = None
            /\ jobTitle' = <<>>
            /\ jobDescription' = <<>>
            /\ UNCHANGED showFullDescription
       ELSE Unmounted
  /\ path' = "/candidate-details"
  /\ pending' = Detached(Without(pending, i))
  /\ UNCHANGED <<viewVars, engineVars, boardVars, loaderVars>>

\* the message of the catch block (lines 100-109), by what the error carries
ErrorKinds == {"detail", "message", "none"}
CaughtMessage(kind) ==
  CASE kind = "detail" -> "detail of the response"
    [] kind = "message" -> "message of the error"
    [] OTHER -> "Failed to analyze resume. Please check your connection and try again."

\* handleSubmit after its await, the request rejected (lines 100-109)
AnalyzeRejects(i, kind) ==
  /\ i \in 1..Len(pending)
  /\ IF pending[i].live
       THEN SetHome(handleError(handleAnalysisEnd(HomeState), CaughtMessage(kind)))
       ELSE UNCHANGED <<result, loading, error>>
  /\ pending' = Without(pending, i)
  /\ UNCHANGED <<selectedFile, jobTitle, jobDescription, showFullDescription,
                 path, viewVars, engineVars, boardVars, loaderVars>>

\* the close button of the error alert: setError(null)
dismissError ==
  /\ OnHome /\ error # None
  /\ error' = None
  /\ UNCHANGED <<result, loading, selectedFile, jobTitle, jobDescription,
                 showFullDescription, pending, path, viewVars, engineVars, boardVars, loaderVars>>

\* a link of the Header to another page: HomePage unmounts
HeaderLinks == {"/", "/candidates", "/leaderboard", "/history"}
LeaveHome(to) ==
  /\ OnHome /\ to # "/"
  /\ path' = to
  /\ pending' = Detached(pending)
  /\ Unmounted
  /\ UNCHANGED <<viewVars, engineVars, boardVars, loaderVars>>

\* back to "/": HomePage and UploadSection mount with their initial state
OpenHome ==
  /\ ~OnHome
  /\ path' = "/"
  /\ Unmounted
  /\ UNCHANGED <<pending, viewVars, engineVars, boardVars, loaderVars>>

(***************************************************************************)
(* The fit scoring engine behind POST /analyze_resume.  One request at a   *)
(* time is followed through its three signals, the aggregator and the      *)
(* rationale composer; numbers in [0,1] are kept in hundredths.            *)
(***************************************************************************)
\* default weight split of the configuration, in hundredths
SkillWeight == 50
SimilarityWeight == 50
\* attempts the generative adapter may make for one request
MaxGenAttempts == 2

\* a quotient with its fraction cut off
RoundDivTruncating(num, den) == num \div den

\* a quotient rounded to the nearest integer, halves up
RoundDiv(num, den) == (2 * num + den) \div (2 * den)

Clamp(x) == IF x < 0 THEN 0 ELSE IF x > 100 THEN 100 ELSE x

\* cosine in [-1,1] to similarity in [0,1], both in hundredths: (cos+1)/2
Rescale(cos) == (cos + 100) \div 2

Cosines == {-100, 0, 80, 100}

\* round(100 * (w1 * skill_ratio + w2 * similarity)), clamped
WeightedScore(m, n, sub) ==
  Clamp(RoundDiv(SkillWeight * 100 * m + SimilarityWeight * sub * n,
                 100 * n))

\* 100 * skill_ratio, the taxonomy-only floor
TaxonomyScore(m, n) == Clamp(RoundDiv(100 * m, n))

Terminal(signal) == signal \in {"ok", "failed", "disabled"}

GenErrors == {"transient-network", "timeout", "rejected", "malformed"}

\* the width, in percent, of the fill that shows a score
\* written as a fraction of one
ProgressBarWidthOfFraction(score) == score * 100

\* ProgressBar: style={{ width: `${score}%` }}
ProgressBarWidth(score) == score

(***************************************************************************)
(* The components that show a match score                                  *)
(***************************************************************************)
\* ResultsSection
getScoreClass(score) ==
  IF score >= 80 THEN "excellent"
  ELSE IF score >= 60 THEN "good"
  ELSE IF score >= 40 THEN "moderate"
  ELSE "low"

getScoreLabel(score) ==
  IF score >= 80 THEN "Excellent Match"
  ELSE IF score >= 60 THEN "Good Match"
  ELSE IF score >= 40 THEN "Moderate Match"
  ELSE "Needs Review"

\* ProgressBar
getColorClass(score) ==
  IF score >= 80 THEN "progress-excellent"
  ELSE IF score >= 60 THEN "progress-good"
  ELSE IF score >= 40 THEN "progress-moderate"
  ELSE "progress-low"

\* getScoreText with its first threshold exclusive
getScoreTextAbove(score) ==
  IF score > 80 THEN "Excellent Match"
  ELSE IF score >= 60 THEN "Good Match"
  ELSE IF score >= 40 THEN "Moderate Match"
  ELSE "Needs Review"

getScoreText(score) ==
  IF score >= 80 THEN "Excellent Match"
  ELSE IF score >= 60 THEN "Good Match"
  ELSE IF score >= 40 THEN "Moderate Match"
  ELSE "Needs Review"

\* CandidateDetails lines 254-259: the children of <p className=
\* "score-description">, each rendered when its condition holds
scoreDescription(score) ==
  (IF score >= 80
     THEN <<"Excellent match! This candidate has strong alignment with the job requirements.">>
     ELSE <<>>)
  \o (IF score >= 60 /\ score < 80
        THEN <<"Good match. This candidate has most of the required skills.">>
        ELSE <<>>)
  \o (IF score >= 40 /\ score < 60
        THEN <<"Moderate match. Consider for interview if other factors are strong.">>
        ELSE <<>>)
  \o (IF score < 40
        THEN <<"Low match. This candidate may need additional training or experience.">>
        ELSE <<>>)

\* what ResultsSection, ProgressBar and the score card of CandidateDetails
\* render for one score; the label of the bar only with showLabel
ScoreViewsOf(score, showLabel) ==
  [score |-> score,
   scoreClass |-> getScoreClass(score),
   scoreLabel |-> getScoreLabel(score),
   colorClass |-> getColorClass(score),
   scoreText |-> IF showLabel THEN Some(getScoreText(score)) ELSE None,
   description |-> scoreDescription(score)]

EngineInit ==
  /\ phase = "idle"
  /\ expected = 0
  /\ matched = 0
  /\ tax = "pending"
  /\ sim = "pending"
  /\ similarity = 0
  /\ gen = "pending"
  /\ genAttempts = 0
  /\ genErrors = <<>>
  /\ fitScore = None
  /\ rationale = ""
  /\ outcome = ""
  /\ barWidth = None
  /\ scoreViews = None

\* score(resume_profile, job_requirement, config): n expected skills, m of
\* them in the resume; no expected skill at all is an InputError
Score(n, m, generativeEnabled) ==
  /\ phase = "idle"
  /\ expected' = n
  /\ matched' = m
  /\ IF n = 0
       THEN /\ phase' = "returned"
            /\ outcome' = "InputError"
            /\ UNCHANGED gen
       ELSE /\ phase' = "running"
            /\ outcome' = ""
            /\ gen' = IF generativeEnabled THEN "pending" ELSE "disabled"
  /\ UNCHANGED <<tax, sim, similarity, genAttempts, genErrors, fitScore,
                 rationale, barWidth, scoreViews, viewVars, homeVars, boardVars, loaderVars>>

\* 4.1: the matcher is pure and cannot fail
TaxonomyMatches ==
  /\ phase = "running" /\ tax = "pending"
  /\ tax' = "ok"
  /\ UNCHANGED <<phase, expected, matched, sim, similarity, gen, genAttempts,
                 genErrors, fitScore, rationale, outcome, barWidth, scoreViews, viewVars,
                 homeVars, boardVars, loaderVars>>

\* 4.2: both embeddings arrive and the cosine is rescaled
SimilaritySucceeds(cos) ==
  /\ phase = "running" /\ sim = "pending"
  /\ sim' = "ok"
  /\ similarity' = Rescale(cos)
  /\ UNCHANGED <<phase, expected, matched, tax, gen, genAttempts, genErrors,
                 fitScore, rationale, outcome, barWidth, scoreViews, viewVars, homeVars, boardVars, loaderVars>>

\* 4.2: the embedding capability is unavailable: failed, sub-score 0
SimilarityFails ==
  /\ phase = "running" /\ sim = "pending"
  /\ sim' = "failed"
  /\ similarity' = 0
  /\ UNCHANGED <<phase, expected, matched, tax, gen, genAttempts, genErrors,
                 fitScore, rationale, outcome, barWidth, scoreViews, viewVars, homeVars, boardVars, loaderVars>>

\* 4.3: an attempt answers with a payload that passes validation
GenerativeSucceeds ==
  /\ phase = "running" /\ gen = "pending"
  /\ genAttempts < MaxGenAttempts
  /\ genAttempts' = genAttempts + 1
  /\ gen' = "ok"
  /\ UNCHANGED <<phase, expected, matched, tax, sim, similarity, genErrors,
                 fitScore, rationale, outcome, barWidth, scoreViews, viewVars, homeVars, boardVars, loaderVars>>

\* a retry policy that retries after any error
MayRetryAnyError(attemptsMade, err) == attemptsMade < MaxGenAttempts

\* 4.3: whether a failed attempt may be followed by another one
MayRetry(attemptsMade, err) ==
  err = "transient-network" /\ attemptsMade < MaxGenAttempts

\* 4.3: an attempt fails; one retry, and only after a transient network error
GenerativeFails(err) ==
  /\ phase = "running" /\ gen = "pending"
  /\ genAttempts < MaxGenAttempts
  /\ genAttempts' = genAttempts + 1
  /\ genErrors' = Append(genErrors, err)
  /\ gen' = IF MayRetry(genAttempts + 1, err) THEN "pending" ELSE "failed"
  /\ UNCHANGED <<phase, expected, matched, tax, sim, similarity, fitScore,
                 rationale, outcome, barWidth, scoreViews, viewVars, homeVars, boardVars, loaderVars>>

\* a provenance that ignores whether the generative result succeeded
ProvenanceAlwaysGenerative(generative) == "generative"

\* 4.4: whose found / missing lists and categories are canonical
Provenance(generative) == IF generative = "ok" THEN "generative" ELSE "taxonomy"

\* a final score that is the weighted sum whatever the signals' states
FinalScoreAlwaysWeighted(m, n, similarityState, sub, generative) ==
  WeightedScore(m, n, sub)

\* 4.4: the final score
FinalScore(m, n, similarityState, sub, generative) ==
  IF similarityState = "failed" /\ generative # "ok"
    THEN TaxonomyScore(m, n)
    ELSE WeightedScore(m, n, sub)

\* an aggregator that does not wait for the generative adapter
AggregatorReadyBeforeGenerative == Terminal(tax) /\ Terminal(sim)

\* 4.4: whether the aggregator may start
AggregatorReady == Terminal(tax) /\ Terminal(sim) /\ Terminal(gen)

Aggregate ==
  /\ phase = "running"
  /\ AggregatorReady
  /\ fitScore' = Some([score |-> FinalScore(matched, expected, sim, similarity, gen),
                       found |-> matched,
                       missing |-> expected - matched,
                       provenance |-> Provenance(gen)])
  /\ phase' = "aggregated"
  /\ UNCHANGED <<expected, matched, tax, sim, similarity, gen, genAttempts,
                 genErrors, rationale, outcome, barWidth, scoreViews, viewVars, homeVars, boardVars, loaderVars>>

\* 4.5: the bracket of the template
Bracket(score) ==
  IF score >= 80 THEN "Excellent match"
  ELSE IF score >= 60 THEN "Good match"
  ELSE IF score >= 40 THEN "Moderate match"
  ELSE "Needs review"

\* 4.5: a generative summary, or the template when the summary fails; the
\* complete FitScore is then returned
Compose(summarized) ==
  /\ phase = "aggregated"
  /\ rationale' = IF summarized THEN "summary" ELSE Bracket(Val(fitScore).score)
  /\ phase' = "returned"
  /\ outcome' = "FitScore"
  /\ UNCHANGED <<expected, matched, tax, sim, similarity, gen, genAttempts,
                 genErrors, fitScore, barWidth, scoreViews, viewVars, homeVars, boardVars, loaderVars>>

\* the client shows the returned match_score in a ProgressBar
\* (CandidateDetails line 252)
ShowScore ==
  /\ phase = "returned" /\ outcome = "FitScore"
  /\ barWidth = None
  /\ scoreViews = None
  /\ barWidth' = Some(ProgressBarWidth(Val(fitScore).score))
  /\ scoreViews' = Some(ScoreViewsOf(Val(fitScore).score, FALSE))
  /\ UNCHANGED <<phase, expected, matched, tax, sim, similarity, gen,
                 genAttempts, genErrors, fitScore, rationale, outcome, viewVars,
                 homeVars, boardVars, loaderVars>>

\* a stored candidate with the given match_score is shown
ShowMatchScore(score, showLabel) ==
  /\ phase = "idle"
  /\ scoreViews = None
  /\ barWidth' = Some(ProgressBarWidth(score))
  /\ scoreViews' = Some(ScoreViewsOf(score, showLabel))
  /\ UNCHANGED <<phase, expected, matched, tax, sim, similarity, gen,
                 genAttempts, genErrors, fitScore, rationale, outcome, viewVars,
                 homeVars, boardVars, loaderVars>>

\* the components showing it unmount
HideMatchScore ==
  /\ phase = "idle"
  /\ scoreViews # None
  /\ barWidth' = None
  /\ scoreViews' = None
  /\ UNCHANGED <<phase, expected, matched, tax, sim, similarity, gen,
                 genAttempts, genErrors, fitScore, rationale, outcome, viewVars,
                 homeVars, boardVars, loaderVars>>

\* the next request starts from a fresh state
NextRequest ==
  /\ phase = "returned"
  /\ phase' = "idle"
  /\ expected' = 0
  /\ matched' = 0
  /\ tax' = "pending"
  /\ sim' = "pending"
  /\ similarity' = 0
  /\ gen' = "pending"
  /\ genAttempts' = 0
  /\ genErrors' = <<>>
  /\ fitScore' = None
  /\ rationale' = ""
  /\ outcome' = ""
  /\ barWidth' = None
  /\ scoreViews' = None
  /\ UNCHANGED <<viewVars, homeVars, boardVars, loaderVars>>


(***************************************************************************)
(* Leaderboard.  The server stores the candidates in rank order; a request *)
(* in flight is first "sent", then handled by the server or lost ("ok" /   *)
(* "error"), and its response then reaches the handler that awaits it.  A  *)
(* handler keeps the rankings of the render it was called in.              *)
(***************************************************************************)
CandidateIds == <<"c1", "c2">>
RemarksValues == {"", "good fit"}
\* every stored candidate applied for the same job
JobTitle == "Engineer"

Candidate(id, remarks) == [_id |-> id, remarks |-> remarks]

Ids(list) == {list[i]._id : i \in 1..Len(list)}

\* rankings.filter(r => r._id !== candidateId)
WithoutCandidate(list, candidateId) ==
  SelectSeq(list, LAMBDA r : r._id # candidateId)

\* rankings.map(r => r._id === candidateId ? { ...r, remarks } : r)
WithRemarks(list, candidateId, remarks) ==
  [i \in 1..Len(list) |->
     IF list[i]._id = candidateId THEN [list[i] EXCEPT !.remarks = remarks]
     ELSE list[i]]

\* [...new Set(rankings.map(r => r.job_title))].sort()
getJobTitles == IF rankings = <<>> THEN {} ELSE {JobTitle}

BoardInit ==
  /\ rankings = <<>>
  /\ lbLoading = TRUE
  /\ lbError = None
  /\ filterJobTitle = ""
  /\ editingRemarks = None
  /\ remarksValue = ""
  /\ deleteConfirm = None
  /\ serverCandidates = [i \in 1..Len(CandidateIds) |-> Candidate(CandidateIds[i], "")]
  /\ inflight = <<[kind |-> "getRankings", id |-> "", remarks |-> "",
                   closure |-> <<>>, stage |-> "sent", data |-> <<>>]>>

\* the table and the filters are rendered
Rendered == ~lbLoading /\ lbError = None

\* the confirmation modal, when open, covers the table and the filters
TableUsable == Rendered /\ deleteConfirm = None

CanSend == Len(inflight) < MaxInFlight

\* fetchRankings up to its await; every stored candidate has the title a
\* filter can name, so the answer does not depend on the filter
fetchRankings ==
  /\ CanSend
  /\ lbLoading' = TRUE
  /\ inflight' = Append(inflight,
       [kind |-> "getRankings", id |-> "", remarks |-> "",
        closure |-> <<>>, stage |-> "sent", data |-> <<>>])

\* onChange of the job title filter; the effect on filterJobTitle calls
\* fetchRankings
setFilterJobTitle(v) ==
  /\ TableUsable
  /\ v \in {""} \cup getJobTitles
  /\ v # filterJobTitle
  /\ filterJobTitle' = v
  /\ fetchRankings
  /\ UNCHANGED <<rankings, lbError, editingRemarks, remarksValue, deleteConfirm,
                 serverCandidates, viewVars, homeVars, engineVars, loaderVars>>

\* the Retry button of the error view
retry ==
  /\ ~lbLoading /\ lbError # None
  /\ fetchRankings
  /\ UNCHANGED <<rankings, lbError, filterJobTitle, editingRemarks, remarksValue,
                 deleteConfirm, serverCandidates, viewVars, homeVars,
                 engineVars, loaderVars>>

startEditRemarks(i) ==
  /\ TableUsable
  /\ i \in 1..Len(rankings)
  /\ editingRemarks # Some(rankings[i]._id)
  /\ editingRemarks' = Some(rankings[i]._id)
  /\ remarksValue' = rankings[i].remarks
  /\ UNCHANGED <<rankings, lbLoading, lbError, filterJobTitle, deleteConfirm,
                 serverCandidates, inflight, viewVars, homeVars,
                 engineVars, loaderVars>>

\* onChange of the remarks textarea of the row being edited
setRemarksValue(v) ==
  /\ TableUsable
  /\ editingRemarks # None /\ Val(editingRemarks) \in Ids(rankings)
  /\ remarksValue' = v
  /\ UNCHANGED <<rankings, lbLoading, lbError, filterJobTitle, editingRemarks,
                 deleteConfirm, serverCandidates, inflight, viewVars,
                 homeVars, engineVars, loaderVars>>

\* the Cancel button of the row being edited: setEditingRemarks(null)
cancelEditRemarks ==
  /\ TableUsable
  /\ editingRemarks # None /\ Val(editingRemarks) \in Ids(rankings)
  /\ editingRemarks' = None
  /\ UNCHANGED <<rankings, lbLoading, lbError, filterJobTitle, remarksValue,
                 deleteConfirm, serverCandidates, inflight, viewVars,
                 homeVars, engineVars, loaderVars>>

\* handleUpdateRemarks up to its await: the Save button of the row being edited
handleUpdateRemarks ==
  /\ TableUsable /\ CanSend
  /\ editingRemarks # None /\ Val(editingRemarks) \in Ids(rankings)
  /\ inflight' = Append(inflight,
       [kind |-> "updateRemarks", id |-> Val(editingRemarks),
        remarks |-> remarksValue, closure |-> rankings, stage |-> "sent",
        data |-> <<>>])
  /\ UNCHANGED <<rankings, lbLoading, lbError, filterJobTitle, editingRemarks,
                 remarksValue, deleteConfirm, serverCandidates,
                 viewVars, homeVars, engineVars, loaderVars>>

\* the delete button of a row: setDeleteConfirm(candidate._id)
setDeleteConfirm(i) ==
  /\ TableUsable
  /\ i \in 1..Len(rankings)
  /\ deleteConfirm' = Some(rankings[i]._id)
  /\ UNCHANGED <<rankings, lbLoading, lbError, filterJobTitle, editingRemarks,
                 remarksValue, serverCandidates, inflight, viewVars,
                 homeVars, engineVars, loaderVars>>

\* the Cancel button of the modal, or a click on its overlay
cancelDelete ==
  /\ Rendered /\ deleteConfirm # None
  /\ deleteConfirm' = None
  /\ UNCHANGED <<rankings, lbLoading, lbError, filterJobTitle, editingRemarks,
                 remarksValue, serverCandidates, inflight, viewVars,
                 homeVars, engineVars, loaderVars>>

\* a modal whose Delete button deletes the first row of the table
ModalDeleteTargetFirstRow(confirm, list) ==
  IF list # <<>> THEN list[1]._id ELSE confirm

\* the argument of handleDelete in the modal: handleDelete(deleteConfirm)
ModalDeleteTarget(confirm, list) == confirm

\* handleDelete up to its await: the Delete button of the modal
handleDelete ==
  /\ Rendered /\ deleteConfirm # None /\ CanSend
  /\ inflight' = Append(inflight,
       [kind |-> "deleteCandidate",
        id |-> ModalDeleteTarget(Val(deleteConfirm), rankings),
        remarks |-> "", closure |-> rankings, stage |-> "sent", data |-> <<>>])
  /\ UNCHANGED <<rankings, lbLoading, lbError, filterJobTitle, editingRemarks,
                 remarksValue, deleteConfirm, serverCandidates,
                 viewVars, homeVars, engineVars, loaderVars>>

SetStage(i, stage, data) ==
  inflight' = [inflight EXCEPT ![i] = [@ EXCEPT !.stage = stage, !.data = data]]

\* the server handles a request: DELETE /candidate/{id} and
\* PATCH /remarks/{id} answer with an error for an id it does not store
ServerHandles(i) ==
  /\ i \in 1..Len(inflight)
  /\ inflight[i].stage = "sent"
  /\ LET op == inflight[i]
         known == op.id \in Ids(serverCandidates)
     IN CASE op.kind = "getRankings" ->
               /\ SetStage(i, "ok", serverCandidates)
               /\ UNCHANGED serverCandidates
          [] op.kind = "updateRemarks" ->
               IF known
                 THEN /\ serverCandidates' =
                           WithRemarks(serverCandidates, op.id, op.remarks)
                      /\ SetStage(i, "ok", <<>>)
                 ELSE /\ SetStage(i, "error", <<>>)
                      /\ UNCHANGED serverCandidates
          [] OTHER ->
               IF known
                 THEN /\ serverCandidates' = WithoutCandidate(serverCandidates, op.id)
                      /\ SetStage(i, "ok", <<>>)
                 ELSE /\ SetStage(i, "error", <<>>)
                      /\ UNCHANGED serverCandidates
  /\ UNCHANGED <<rankings, lbLoading, lbError, filterJobTitle, editingRemarks,
                 remarksValue, deleteConfirm, viewVars, homeVars,
                 engineVars, loaderVars>>

\* a request does not reach the server
RequestFails(i) ==
  /\ i \in 1..Len(inflight)
  /\ inflight[i].stage = "sent"
  /\ SetStage(i, "error", <<>>)
  /\ UNCHANGED <<rankings, lbLoading, lbError, filterJobTitle, editingRemarks,
                 remarksValue, deleteConfirm, serverCandidates,
                 viewVars, homeVars, engineVars, loaderVars>>

Answered(i, kind, stage) ==
  /\ i \in 1..Len(inflight)
  /\ inflight[i].kind = kind
  /\ inflight[i].stage = stage
  /\ inflight' = Without(inflight, i)

\* fetchRankings after its await, resolved
getRankingsResolves(i) ==
  /\ Answered(i, "getRankings", "ok")
  /\ rankings' = inflight[i].data
  /\ lbError' = None
  /\ lbLoading' = FALSE
  /\ UNCHANGED <<filterJobTitle, editingRemarks, remarksValue, deleteConfirm,
                 serverCandidates, viewVars, homeVars, engineVars, loaderVars>>

\* fetchRankings after its await, rejected
getRankingsRejects(i) ==
  /\ Answered(i, "getRankings", "error")
  /\ lbError' = Some("Failed to load rankings")
  /\ lbLoading' = FALSE
  /\ UNCHANGED <<rankings, filterJobTitle, editingRemarks, remarksValue,
                 deleteConfirm, serverCandidates, viewVars, homeVars,
                 engineVars, loaderVars>>

\* handleUpdateRemarks after its await, resolved
updateRemarksResolves(i) ==
  /\ Answered(i, "updateRemarks", "ok")
  /\ rankings' = WithRemarks(inflight[i].closure, inflight[i].id, inflight[i].remarks)
  /\ editingRemarks' = None
  /\ remarksValue' = ""
  /\ UNCHANGED <<lbLoading, lbError, filterJobTitle, deleteConfirm,
                 serverCandidates, viewVars, homeVars, engineVars, loaderVars>>

\* handleUpdateRemarks after its await, rejected: an alert
updateRemarksRejects(i) ==
  /\ Answered(i, "updateRemarks", "error")
  /\ UNCHANGED <<rankings, lbLoading, lbError, filterJobTitle, editingRemarks,
                 remarksValue, deleteConfirm, serverCandidates,
                 viewVars, homeVars, engineVars, loaderVars>>

\* handleDelete after its await, resolved
deleteCandidateResolves(i) ==
  /\ Answered(i, "deleteCandidate", "ok")
  /\ rankings' = WithoutCandidate(inflight[i].closure, inflight[i].id)
  /\ deleteConfirm' = None
  /\ UNCHANGED <<lbLoading, lbError, filterJobTitle, editingRemarks, remarksValue,
                 serverCandidates, viewVars, homeVars, engineVars, loaderVars>>

\* handleDelete after its await, rejected: an alert
deleteCandidateRejects(i) ==
  /\ Answered(i, "deleteCandidate", "error")
  /\ UNCHANGED <<rankings, lbLoading, lbError, filterJobTitle, editingRemarks,
                 remarksValue, deleteConfirm, serverCandidates,
                 viewVars, homeVars, engineVars, loaderVars>>

(***************************************************************************)
(* History and CandidatesList: the two views that load a list with         *)
(* getHistory when they mount, with the same try / catch / finally as      *)
(* Leaderboard.fetchRankings.  CandidateDetails.fetchCandidateDetails has  *)
(* the same shape but starts only for a candidateId route parameter, which *)
(* no route of App declares.                                               *)
(***************************************************************************)
LoaderViews == {"History", "CandidatesList"}

\* the message of the catch block of fetchHistory and of fetchCandidates
FailureMessage(view) ==
  IF view = "History" THEN "Failed to load history" ELSE "Failed to load candidates"

\* the lists GET /history answers with
HistoryLists == {<<>>, <<"analysis-1">>}

\* setLoading(true), then the await of getHistory
fetchStarted(ld) == [ld EXCEPT !.loading = TRUE, !.request = "sent"]

\* after the await, resolved: the list and setError(null), then finally
fetchSucceeded(ld) ==
  [ld EXCEPT !.list = ld.data, !.error = None, !.loading = FALSE,
             !.request = "none", !.data = <<>>]

\* a catch block that is not followed by the finally block
fetchFailedWithoutFinally(ld, message) ==
  [ld EXCEPT !.error = Some(message), !.request = "none"]

\* after the await, rejected: setError(message), then finally
fetchFailed(ld, message) ==
  [ld EXCEPT !.error = Some(message), !.loading = FALSE, !.request = "none"]

\* useState of the two views and the fetch of their mount effect
LoaderInit ==
  loaders = [view \in LoaderViews |->
               [loading |-> TRUE, error |-> None, list |-> <<>>,
                request |-> "sent", data |-> <<>>]]

\* the server answers GET /history
historyAnswered(view, list) ==
  /\ loaders[view].request = "sent"
  /\ loaders' = [loaders EXCEPT ![view] = [@ EXCEPT !.request = "ok", !.data = list]]
  /\ UNCHANGED <<viewVars, homeVars, engineVars, boardVars>>

\* the request does not reach the server, or the server answers with an error
historyRequestFails(view) ==
  /\ loaders[view].request = "sent"
  /\ loaders' = [loaders EXCEPT ![view] = [@ EXCEPT !.request = "error"]]
  /\ UNCHANGED <<viewVars, homeVars, engineVars, boardVars>>

\* fetchHistory / fetchCandidates after the await, resolved
fetchResolves(view) ==
  /\ loaders[view].request = "ok"
  /\ loaders' = [loaders EXCEPT ![view] = fetchSucceeded(@)]
  /\ UNCHANGED <<viewVars, homeVars, engineVars, boardVars>>

\* fetchHistory / fetchCandidates after the await, rejected
fetchRejects(view) ==
  /\ loaders[view].request = "error"
  /\ loaders' = [loaders EXCEPT ![view] = fetchFailed(@, FailureMessage(view))]
  /\ UNCHANGED <<viewVars, homeVars, engineVars, boardVars>>

\* the Retry button of the error view, rendered when not loading
retryFetch(view) ==
  /\ ~loaders[view].loading /\ loaders[view].error # None
  /\ loaders' = [loaders EXCEPT ![view] = fetchStarted(@)]
  /\ UNCHANGED <<viewVars, homeVars, engineVars, boardVars>>

(***************************************************************************)
(* Specifications                                                          *)
(***************************************************************************)
NextView ==
  \/ cdResult = None /\ \E r \in Results : ShowCandidate(r)
  \/ handleBackToHome

InitView == ViewInit /\ HomeInit /\ EngineInit /\ BoardInit /\ LoaderInit

SpecView == InitView /\ [][NextView]_vars

NextScenarioA ==
  \/ cdResult = None /\ \E r \in ScenarioResults : ShowCandidate(r)
  \/ handleBackToHome

SpecScenarioA == InitView /\ [][NextScenarioA]_vars

NextHome ==
  \/ \E v \in Titles : setJobTitle(v)
  \/ toggleFullDescription
  \/ \E v \in Descriptions : setJobDescription(v)
  \/ \E file \in Files : validateAndSetFile(file)
  \/ removeFile
  \/ handleSubmit
  \/ \E i \in 1..MaxPending, data \in AnalysisIds : AnalyzeResolves(i, data)
  \/ \E i \in 1..MaxPending, kind \in ErrorKinds : AnalyzeRejects(i, kind)
  \/ dismissError
  \/ \E to \in HeaderLinks : LeaveHome(to)
  \/ OpenHome

InitHome == ViewInit /\ HomeInit /\ EngineInit /\ BoardInit /\ LoaderInit

SpecHome == InitHome /\ [][NextHome]_vars

EngineStep ==
  \/ TaxonomyMatches
  \/ \E cos \in Cosines : SimilaritySucceeds(cos)
  \/ SimilarityFails
  \/ GenerativeSucceeds
  \/ \E err \in GenErrors : GenerativeFails(err)
  \/ Aggregate
  \/ \E summarized \in BOOLEAN : Compose(summarized)

NextEngine ==
  \/ \E n \in 0..MaxExpected, generativeEnabled \in BOOLEAN :
       \E m \in 0..n : Score(n, m, generativeEnabled)
  \/ EngineStep
  \/ ShowScore
  \/ NextRequest

InitEngine == ViewInit /\ HomeInit /\ EngineInit /\ BoardInit /\ LoaderInit

SpecEngine == InitEngine /\ [][NextEngine]_vars

NextScoreViews ==
  \/ \E score \in 0..MaxScore, showLabel \in BOOLEAN : ShowMatchScore(score, showLabel)
  \/ HideMatchScore

SpecScoreViews == InitEngine /\ [][NextScoreViews]_vars

NextBoard ==
  \/ \E v \in {"", JobTitle} : setFilterJobTitle(v)
  \/ retry
  \/ \E i \in 1..Len(CandidateIds) : startEditRemarks(i)
  \/ \E v \in RemarksValues : setRemarksValue(v)
  \/ cancelEditRemarks
  \/ handleUpdateRemarks
  \/ \E i \in 1..Len(CandidateIds) : setDeleteConfirm(i)
  \/ cancelDelete
  \/ handleDelete
  \/ \E i \in 1..MaxInFlight : ServerHandles(i)
  \/ \E i \in 1..MaxInFlight : RequestFails(i)
  \/ \E i \in 1..MaxInFlight : getRankingsResolves(i)
  \/ \E i \in 1..MaxInFlight : getRankingsRejects(i)
  \/ \E i \in 1..MaxInFlight : updateRemarksResolves(i)
  \/ \E i \in 1..MaxInFlight : updateRemarksRejects(i)
  \/ \E i \in 1..MaxInFlight : deleteCandidateResolves(i)
  \/ \E i \in 1..MaxInFlight : deleteCandidateRejects(i)

InitBoard == ViewInit /\ HomeInit /\ EngineInit /\ BoardInit /\ LoaderInit

SpecBoard == InitBoard /\ [][NextBoard]_vars

\* the Leaderboard used for deleting only: no remarks are edited and the
\* filter is left alone
NextBoardDelete ==
  \/ retry
  \/ \E i \in 1..Len(CandidateIds) : setDeleteConfirm(i)
  \/ cancelDelete
  \/ handleDelete
  \/ \E i \in 1..MaxInFlight : ServerHandles(i)
  \/ \E i \in 1..MaxInFlight : RequestFails(i)
  \/ \E i \in 1..MaxInFlight : getRankingsResolves(i)
  \/ \E i \in 1..MaxInFlight : getRankingsRejects(i)
  \/ \E i \in 1..MaxInFlight : deleteCandidateResolves(i)
  \/ \E i \in 1..MaxInFlight : deleteCandidateRejects(i)

SpecBoardDelete == InitBoard /\ [][NextBoardDelete]_vars

\* every call of a capability answers or times out, and the local steps run
FairSpecEngine == SpecEngine /\ WF_vars(EngineStep)

(***************************************************************************)
(* Properties of the candidate-details view (SpecView)                     *)
(***************************************************************************)
Shown == cdResult # None
TotalBucketed(categorized) ==
  Len(categorized["frontend"]) + Len(categorized["backend"])
    + Len(categorized["database"]) + Len(categorized["infrastructure"])

\* C1: for every displayed result the found and the missing list are
\* disjoint, and together they are the expected skills of the result, in
\* each of the three cases of lines 104-114.
C1_FoundMissingPartitionExpected ==
  Shown =>
    /\ Disjoint(displaySkillsFound, displaySkillsMissing)
    /\ Truthy(Val(cdResult).expected_skills) =>
         ToSet(displaySkillsFound) \cup ToSet(displaySkillsMissing)
           = ToSet(Val(Val(cdResult).expected_skills))

\* C2: the category breakdown loses and duplicates nothing: the sizes of the
\* buckets of each displayed list sum to the size of the list, and a skill
\* no bucket holds is a skill that was dropped.
C2_BreakdownPartitionsList ==
  Shown =>
    /\ TotalBucketed(categorizedSkillsFound) = Len(displaySkillsFound)
    /\ TotalBucketed(categorizedSkillsMissing) = Len(displaySkillsMissing)
    /\ \A s \in ToSet(displaySkillsFound) :
         \E c \in Categories : arrayIncludes(categorizedSkillsFound[c], s)
    /\ \A s \in ToSet(displaySkillsMissing) :
         \E c \in Categories : arrayIncludes(categorizedSkillsMissing[c], s)

\* C6: a skill is shown as found only when a resume skill equals it
\* case-insensitively, never because it is a substring of a longer one: with
\* resume skills all "JavaScript", an expected "Java" is missing and not
\* found.
C6_NoSubstringFalsePositive ==
  (Shown /\ Truthy(Val(cdResult).skills)) =>
    LET r == Val(cdResult)
        resume == Val(r.skills)
    IN /\ \A s \in ToSet(displaySkillsFound) :
            \E t \in ToSet(resume) : SameSkill(s, t)
       /\ ( /\ ToSet(resume) = {JavaScript}
            /\ Truthy(r.expected_skills)
            /\ Java \in ToSet(Val(r.expected_skills)) )
          => /\ Java \notin ToSet(displaySkillsFound)
             /\ Java \in ToSet(displaySkillsMissing)

C6_Witness ==
  /\ Shown
  /\ DisplayCase(Val(cdResult)) = "computed"
  /\ ToSet(Val(Val(cdResult).skills)) = {JavaScript}
  /\ Java \in ToSet(Val(Val(cdResult).expected_skills))
  /\ Java \in ToSet(displaySkillsMissing)
  /\ JavaScript \in ToSet(displaySkillsFound)

IsAlnum(c) ==
  c \in {"a","b","c","d","e","f","g","h","i","j","k","l","m","n","o","p","q",
         "r","s","t","u","v","w","x","y","z",
         "0","1","2","3","4","5","6","7","8","9"}

\* keyword occurs in s bounded on both sides by the ends of s or by a
\* character that is no letter or digit
WholeToken(s, keyword) ==
  \E i \in 0..(Len(s) - Len(keyword)) :
    /\ SubSeq(s, i + 1, i + Len(keyword)) = keyword
    /\ i = 0 \/ ~IsAlnum(s[i])
    /\ i + Len(keyword) = Len(s) \/ ~IsAlnum(s[i + Len(keyword) + 1])

PlacedByWholeToken(categorized) ==
  \A c \in Categories : \A s \in ToSet(categorized[c]) :
    some(categoryKeywords[c], LAMBDA keyword : WholeToken(toLowerCase(s), keyword))

\* C7: a skill is in a category only if it equals a keyword of that category
\* case-insensitively or contains it as a whole token.
C7_CategoryByWholeToken ==
  Shown => /\ PlacedByWholeToken(categorizedSkillsFound)
           /\ PlacedByWholeToken(categorizedSkillsMissing)

\* who decided a list: the server's analysis, the view's own matching
\* against expected_skills, or nobody (the raw resume skills)
OriginOf(field) ==
  CASE field = "skills_found" -> "analysis"
    [] field = "skills_missing" -> "analysis"
    [] field = "expected_skills" -> "view"
    [] field = "skills" -> "resume"
    [] OTHER -> ""

SameOrigin(a, b) == a = "" \/ b = "" \/ a = b

\* C9: the found list and the missing list of one displayed result have one
\* origin: both are the server's analysis, or both are the view's matching.
C9_OneProvenance ==
  Shown =>
    LET f == OriginOf(FoundSourceOf(Val(cdResult)))
        m == OriginOf(MissingSourceOf(Val(cdResult)))
    IN SameOrigin(f, m)

(***************************************************************************)
(* Properties of the home page (SpecHome)                                  *)
(***************************************************************************)
\* a step in which the response of a request arrives at the page that sent it
SettlesLive ==
  \E i \in 1..Len(pending) :
    /\ pending[i].live
    /\ \/ \E data \in AnalysisIds : AnalyzeResolves(i, data)
       \/ \E kind \in ErrorKinds : AnalyzeRejects(i, kind)

\* C4: when a submitted analysis settles, loading is false and exactly one
\* of result and error is set: a result and no error, or an error and no
\* result.
C4_SettlesWithResultOrError ==
  [][SettlesLive =>
       /\ loading' = FALSE
       /\ \/ result' # None /\ error' = None
          \/ result' = None /\ error' # None]_vars

C4_Witness ==
  /\ path = "/candidate-details"
  /\ result # None
  /\ error = None
  /\ ~loading

\* C8: a submit without a resume file, or with a job title that is empty or
\* only whitespace, reports an error, sends no analyze request, does not
\* start loading and leaves the result as it is; every request sent carries
\* a file and a job title that is not blank.
C8_NoRequirementNoRequest ==
  /\ [](\A i \in 1..Len(pending) : trim(pending[i].jobTitle) # <<>>)
  /\ [][(handleSubmit /\ (selectedFile = None \/ trim(jobTitle) = <<>>)) =>
          /\ error' \in {Some("Please select a resume file"),
                         Some("Please enter a job title")}
          /\ pending' = pending
          /\ loading' = FALSE
          /\ result' = result]_vars

C8_Witness ==
  /\ OnHome
  /\ error = Some("Please enter a job title")
  /\ selectedFile # None
  /\ jobTitle = <<" ">>
  /\ pending = <<>>
  /\ ~loading

C5_FallbackLaw ==
  /\ []((fitScore # None /\ gen # "ok") => Val(fitScore).provenance = "taxonomy")
  /\ []((phase = "returned" /\ expected > 0) =>
          (outcome = "FitScore" /\ fitScore # None))
  /\ (phase = "running") ~> (phase = "returned")

C5_Witness ==
  /\ phase = "returned"
  /\ gen = "failed"
  /\ genAttempts = MaxGenAttempts
  /\ outcome = "FitScore"
  /\ Val(fitScore).provenance = "taxonomy"

\* C10: an aggregated result exists only when all three signals are terminal,
\* and a rationale only when the aggregated result exists.
C10_AggregatorIsBarrier ==
  /\ fitScore # None => (Terminal(tax) /\ Terminal(sim) /\ Terminal(gen))
  /\ phase = "aggregated" => fitScore # None
  /\ rationale # "" => (fitScore # None /\ phase = "returned")

C10_Witness ==
  /\ fitScore # None
  /\ rationale # ""
  /\ sim = "failed"
  /\ gen = "ok"
  /\ genAttempts = 2

\* C11: with the default weights a score made from a similarity sub-score is
\* the integer nearest to 100 * (0.5 * skill_ratio + 0.5 * similarity),
\* halves rounded up, within 0..100; skill_ratio 3/4 with similarity 0.9
\* gives 83.
C11_WeightedScoreRounded ==
  (fitScore # None /\ sim = "ok") =>
    LET s == Val(fitScore).score
        num == 50 * 100 * matched + 50 * similarity * expected
        den == 100 * expected
    IN /\ s \in 0..100
       /\ 2 * s * den - den <= 2 * num
       /\ 2 * num < 2 * s * den + den
       /\ (4 * matched = 3 * expected /\ similarity = 90) => s = 83

C11_Witness ==
  /\ fitScore # None
  /\ sim = "ok"
  /\ matched = 3
  /\ expected = 4
  /\ similarity = 90
  /\ Val(fitScore).score = 83

\* C12: when the similarity scorer and the generative adapter have both
\* failed, the request returns a FitScore whose score is 100 * skill_ratio
\* (to the nearest integer), not the weighted sum with a similarity of 0.
C12_TaxonomyOnlyFloor ==
  /\ (fitScore # None /\ sim = "failed" /\ gen = "failed") =>
       LET s == Val(fitScore).score
       IN /\ 2 * s * expected - expected <= 2 * 100 * matched
          /\ 2 * 100 * matched < 2 * s * expected + expected
  /\ (phase = "returned" /\ sim = "failed" /\ gen = "failed") =>
       (outcome = "FitScore" /\ fitScore # None)

C12_Witness ==
  /\ phase = "returned"
  /\ outcome = "FitScore"
  /\ sim = "failed"
  /\ gen = "failed"
  /\ matched = 3
  /\ expected = 4
  /\ Val(fitScore).score = 75

\* C13: the generative capability is called at most twice for one request,
\* and a second call is made only after a first call that failed with a
\* transient network error.
C13_AtMostOneRetry ==
  /\ [](genAttempts <= 2)
  /\ [][genAttempts' > genAttempts =>
          \/ genAttempts = 0
          \/ genAttempts = 1 /\ genErrors = <<"transient-network">>]_vars

C13_Witness ==
  /\ genAttempts = 2
  /\ genErrors = <<"transient-network", "rejected">>
  /\ gen = "failed"

(***************************************************************************)
(* Order-independence of the view's matching and categorization (SpecView) *)
(***************************************************************************)
\* the arrays that hold the elements of arr in another order
Reordered(arr) ==
  {[i \in 1..Len(arr) |-> arr[p[i]]] : p \in Permutations(1..Len(arr))}

SameBuckets(a, b) == \A c \in Categories : ToSet(a[c]) = ToSet(b[c])

\* C14: rendering the same result again gives the same lists and buckets,
\* and with the resume skills or the expected skills in another order the
\* found set, the missing set and the set of skills of every category are
\* the same.
C14_OrderIndependent ==
  Shown =>
    LET r == Val(cdResult)
    IN /\ SkillsFoundOf(r) = displaySkillsFound
       /\ SkillsMissingOf(r) = displaySkillsMissing
       /\ categorizeSkills(displaySkillsFound) = categorizedSkillsFound
       /\ categorizeSkills(displaySkillsMissing) = categorizedSkillsMissing
       /\ DisplayCase(r) = "computed" =>
            \A ps \in Reordered(Val(r.skills)) :
              \A pe \in Reordered(Val(r.expected_skills)) :
                LET r2 == [r EXCEPT !.skills = Some(ps),
                                    !.expected_skills = Some(pe)]
                    found2 == SkillsFoundOf(r2)
                    missing2 == SkillsMissingOf(r2)
                IN /\ ToSet(found2) = ToSet(displaySkillsFound)
                   /\ ToSet(missing2) = ToSet(displaySkillsMissing)
                   /\ SameBuckets(categorizeSkills(found2), categorizedSkillsFound)
                   /\ SameBuckets(categorizeSkills(missing2), categorizedSkillsMissing)

C14_Witness ==
  /\ Shown
  /\ DisplayCase(Val(cdResult)) = "computed"
  /\ Val(Val(cdResult).skills) = <<JavaScript, Java>>
  /\ Val(Val(cdResult).expected_skills) = <<MongoDB, Java>>
  /\ displaySkillsFound = <<Java>>
  /\ displaySkillsMissing = <<MongoDB>>

(***************************************************************************)
(* Scenario A (SpecScenarioA)                                              *)
(***************************************************************************)
\* C15: in the view's own matching every expected skill is found exactly
\* when some resume skill equals it case-insensitively and missing exactly
\* when none does; resume {Python, React, Docker} against expected
\* {Python, React, Docker, AWS} gives found {Python, React, Docker},
\* missing {AWS} and three of four expected skills found.
C15_FoundIffMatch ==
  (Shown /\ DisplayCase(Val(cdResult)) = "computed") =>
    LET resume == Val(Val(cdResult).skills)
        job == Val(Val(cdResult).expected_skills)
        matches(e) == \E t \in ToSet(resume) : SameSkill(e, t)
    IN /\ \A e \in ToSet(job) :
            /\ e \in ToSet(displaySkillsFound) <=> matches(e)
            /\ e \in ToSet(displaySkillsMissing) <=> ~matches(e)
       /\ ToSet(displaySkillsFound) \cup ToSet(displaySkillsMissing) \subseteq ToSet(job)
       /\ (ToSet(resume) = {Python, React, Docker} /\ ToSet(job) = ScenarioExpectedNames) =>
            /\ ToSet(displaySkillsFound) = {Python, React, Docker}
            /\ ToSet(displaySkillsMissing) = {AWS}
            /\ 4 * Len(displaySkillsFound) = 3 * Len(job)

C15_Witness ==
  /\ Shown
  /\ Val(Val(cdResult).skills) = <<pythonLower, React, Docker>>
  /\ Val(Val(cdResult).expected_skills) = <<Python, React, Docker, AWS>>
  /\ displaySkillsFound = <<Python, React, Docker>>
  /\ displaySkillsMissing = <<AWS>>

(***************************************************************************)
(* Score brackets (SpecScoreViews)                                         *)
(***************************************************************************)
\* the bracket, 1 (best) to 4, a rendered class or text stands for; 0 for
\* anything else
BracketOfOutput(out) ==
  CASE out \in {"excellent", "progress-excellent", "Excellent Match",
               "Excellent match! This candidate has strong alignment with the job requirements."} -> 1
    [] out \in {"good", "progress-good", "Good Match",
               "Good match. This candidate has most of the required skills."} -> 2
    [] out \in {"moderate", "progress-moderate", "Moderate Match",
               "Moderate match. Consider for interview if other factors are strong."} -> 3
    [] out \in {"low", "progress-low", "Needs Review",
               "Low match. This candidate may need additional training or experience."} -> 4
    [] OTHER -> 0

BracketOfScore(score) ==
  IF score >= 80 THEN 1 ELSE IF score >= 60 THEN 2 ELSE IF score >= 40 THEN 3 ELSE 4

\* C16: for every score each implementation renders one output, and all of
\* them stand for the bracket the thresholds 80 / 60 / 40 give the score.
C16_OneBracketEverywhere ==
  scoreViews # None =>
    LET v == Val(scoreViews)
        b == BracketOfScore(v.score)
    IN /\ BracketOfOutput(v.scoreClass) = b
       /\ BracketOfOutput(v.scoreLabel) = b
       /\ BracketOfOutput(v.colorClass) = b
       /\ v.scoreText # None => BracketOfOutput(Val(v.scoreText)) = b
       /\ Len(v.description) = 1
       /\ BracketOfOutput(v.description[1]) = b

C16_Witness ==
  /\ scoreViews # None
  /\ Val(scoreViews).score = 80
  /\ Val(scoreViews).scoreText = Some("Excellent Match")
  /\ Val(scoreViews).scoreClass = "excellent"
  /\ Len(Val(scoreViews).description) = 1

(***************************************************************************)
(* Navigation after a successful analysis (SpecHome)                       *)
(***************************************************************************)
\* a step in which a request resolves at the page that sent it
ResolvesLive ==
  \E i \in 1..Len(pending) :
    pending[i].live /\ \E data \in AnalysisIds : AnalyzeResolves(i, data)

\* C17: when an analysis succeeds the form is reset (no file, empty title
\* and description) and the location becomes a path the application
\* declares a route for, whose element is CandidateDetails.
C17_SuccessResetsAndNavigates ==
  [][ResolvesLive =>
       /\ selectedFile' = None
       /\ jobTitle' = <<>>
       /\ jobDescription' = <<>>
       /\ path' \in RoutePaths
       /\ RouteElement[path'] = "CandidateDetails"]_vars

(***************************************************************************)
(* Properties of the Leaderboard (SpecBoard, SpecBoardDelete)              *)
(***************************************************************************)
\* a step in which the response of a rankings fetch is taken in
FetchResponds == \E i \in 1..Len(inflight) : getRankingsResolves(i)

\* C18: a candidate the server has deleted comes back into the local
\* rankings only when a rankings fetch returns it: no other step, whatever
\* was in flight, adds a candidate the server no longer stores.
C18_DeletedStaysGone ==
  [][~FetchResponds =>
       \A c \in Ids(rankings') \ Ids(rankings) : c \in Ids(serverCandidates')]_vars

\* C19: the rankings change only when a response reports success; a
\* successful delete takes exactly the deleted candidate out of the current
\* list, a successful update changes exactly the remarks of its candidate
\* in the current list and ends the edit, and a failed delete or update
\* leaves the list, the confirmation and the edit state as they are.
C19_RankingsFrame ==
  [][/\ rankings' # rankings =>
          \E i \in 1..Len(inflight) :
            \/ getRankingsResolves(i)
            \/ updateRemarksResolves(i)
            \/ deleteCandidateResolves(i)
     /\ \A i \in 1..Len(inflight) :
          /\ deleteCandidateResolves(i) =>
               rankings' = WithoutCandidate(rankings, inflight[i].id)
          /\ updateRemarksResolves(i) =>
               /\ rankings' = WithRemarks(rankings, inflight[i].id, inflight[i].remarks)
               /\ editingRemarks' = None
          /\ (deleteCandidateRejects(i) \/ updateRemarksRejects(i)) =>
               /\ rankings' = rankings
               /\ deleteConfirm' = deleteConfirm
               /\ editingRemarks' = editingRemarks]_vars

\* a step that issues a deleteCandidate request
IssuesDelete ==
  /\ Len(inflight') = Len(inflight) + 1
  /\ inflight'[Len(inflight')].kind = "deleteCandidate"

\* C20: a deleteCandidate request is issued only by the Delete button of the
\* confirmation dialog and for the candidate the dialog shows; the dialog
\* comes to show a candidate only by the delete button of that candidate's
\* row; Cancel and the overlay close the dialog and issue nothing.
C20_DeleteOnlyAfterConfirm ==
  [][/\ IssuesDelete =>
          /\ deleteConfirm # None
          /\ inflight'[Len(inflight')].id = Val(deleteConfirm)
          /\ deleteConfirm' = deleteConfirm
     /\ (deleteConfirm' # None /\ deleteConfirm' # deleteConfirm) =>
          \E i \in 1..Len(rankings) :
            setDeleteConfirm(i) /\ deleteConfirm' = Some(rankings[i]._id)
     /\ cancelDelete => (inflight' = inflight /\ deleteConfirm' = None)]_vars

C20_Witness ==
  /\ deleteConfirm = Some("c2")
  /\ Ids(rankings) = {"c1", "c2"}
  /\ \E i \in 1..Len(inflight) :
       inflight[i].kind = "deleteCandidate" /\ inflight[i].id = "c2"

(***************************************************************************)
(* C21: analyze requests of the home page                                  *)
(***************************************************************************)
\* the requests whose response the mounted HomePage still awaits
LiveRequests == {i \in 1..Len(pending) : pending[i].live}

\* C21: at most one analyze request of the home page is in flight at any
\* time, and while the mounted page awaits a request the form is disabled
\* and result is null.
C21_OneAnalyzeInFlight ==
  /\ Len(pending) <= 1
  /\ LiveRequests # {} => (disabled /\ result = None)

(***************************************************************************)
(* C22: the selected resume file                                           *)
(***************************************************************************)
\* C22: the selected file is none or a file of an allowed type whose size
\* is less than 10MB.
C22_SelectedFileValid ==
  selectedFile # None =>
    /\ Val(selectedFile).type \in validTypes
    /\ Val(selectedFile).size < maxSize

(***************************************************************************)
(* C23: the empty-state messages of the skills sections                    *)
(***************************************************************************)
\* line 297: Object.values(categorizedSkillsFound).every(arr => arr.length === 0)
NoMatchingSkillsMessage ==
  \A c \in Categories : Len(categorizedSkillsFound[c]) = 0

\* line 326: Object.values(categorizedSkillsMissing).every(arr => arr.length === 0)
AllSkillsFoundMessage ==
  \A c \in Categories : Len(categorizedSkillsMissing[c]) = 0

\* C23: "All required skills found" is shown only when the missing list,
\* counted in its header, is empty, and "No matching skills found" only
\* when the found list is empty.
C23_EmptyMessagesAgreeWithCounts ==
  Shown =>
    /\ AllSkillsFoundMessage => Len(displaySkillsMissing) = 0
    /\ NoMatchingSkillsMessage => Len(displaySkillsFound) = 0

(***************************************************************************)
(* Navigation: the pages behind the route table and the links and          *)
(* navigate calls that lead from one to another.  The home page keeps its  *)
(* form and its analyze requests; CandidatesList hands the clicked         *)
(* candidate to CandidateDetails as location state.                        *)
(***************************************************************************)
\* the candidates listed by CandidatesList: one with the lists supplied by
\* the server, one with the lists left to the view
ListedCandidates ==
  {[skills_found |-> Some(<<Java>>), skills_missing |-> Some(<<MongoDB>>),
    skills |-> None, expected_skills |-> None],
   [skills_found |-> None, skills_missing |-> None,
    skills |-> Some(<<Java>>), expected_skills |-> Some(<<Java, MongoDB>>)]}

\* the CandidateDetails of a page that is left
ViewUnmounts ==
  /\ cdResult' = None
  /\ displaySkillsFound' = <<>>
  /\ displaySkillsMissing' = <<>>
  /\ categorizedSkillsFound' = categorizeSkills(<<>>)
  /\ categorizedSkillsMissing' = categorizeSkills(<<>>)

\* a nav link of the Header to another path, on a routed page other than
\* the home page (whose links are LeaveHome); Leaderboard and History
\* render the Header once they have loaded
HeaderLink(to) ==
  /\ path \in RoutePaths \ {"/"}
  /\ to # path
  /\ path' = to
  /\ ViewUnmounts
  /\ UNCHANGED <<result, loading, error, selectedFile, jobTitle, jobDescription,
                 showFullDescription, pending, engineVars, boardVars, loaderVars>>

\* CandidatesList.handleCandidateClick: navigate('/candidates-details',
\* { state: { result: candidate } }); CandidateDetails renders the candidate
handleCandidateClick(candidate) ==
  /\ path = "/candidates"
  /\ path' = "/candidates-details"
  /\ cdResult' = Some(candidate)
  /\ displaySkillsFound' = SkillsFoundOf(candidate)
  /\ displaySkillsMissing' = SkillsMissingOf(candidate)
  /\ categorizedSkillsFound' = categorizeSkills(SkillsFoundOf(candidate))
  /\ categorizedSkillsMissing' = categorizeSkills(SkillsMissingOf(candidate))
  /\ UNCHANGED <<result, loading, error, selectedFile, jobTitle, jobDescription,
                 showFullDescription, pending, engineVars, boardVars, loaderVars>>

\* the links and buttons of CandidateDetails while it shows a candidate:
\* handleBackToHome (navigate('/candidates')), "View Full Leaderboard"
\* (Link to /leaderboard) and "View Leaderboard" (Link to /dashboard)
CandidateDetailsTargets == {"/candidates", "/leaderboard", "/dashboard"}

CandidateDetailsLink(to) ==
  /\ path = "/candidates-details"
  /\ cdResult # None
  /\ path' = to
  /\ ViewUnmounts
  /\ UNCHANGED <<result, loading, error, selectedFile, jobTitle, jobDescription,
                 showFullDescription, pending, engineVars, boardVars, loaderVars>>

NextNav ==
  \/ \E v \in Titles : setJobTitle(v)
  \/ \E file \in Files : validateAndSetFile(file)
  \/ handleSubmit
  \/ \E i \in 1..MaxPending, data \in AnalysisIds : AnalyzeResolves(i, data)
  \/ \E i \in 1..MaxPending, kind \in ErrorKinds : AnalyzeRejects(i, kind)
  \/ \E to \in HeaderLinks : LeaveHome(to)
  \/ \E to \in HeaderLinks : HeaderLink(to)
  \/ \E candidate \in ListedCandidates : handleCandidateClick(candidate)
  \/ \E to \in CandidateDetailsTargets : CandidateDetailsLink(to)

InitNav == ViewInit /\ HomeInit /\ EngineInit /\ BoardInit /\ LoaderInit

SpecNav == InitNav /\ [][NextNav]_vars

(***************************************************************************)
(* C24: navigation targets and the route table                             *)
(***************************************************************************)
\* C24: whatever the user does from the home page, the current path is one
\* the route table declares.
C24_PathIsARoute == path \in RoutePaths

(***************************************************************************)
(* The fetches of the data-loading views, every request answered and       *)
(* every answer handled                                                    *)
(***************************************************************************)
RankingsAnswered ==
  \E i \in 1..Len(inflight) : ServerHandles(i) \/ RequestFails(i)

RankingsSettles ==
  \E i \in 1..Len(inflight) : getRankingsResolves(i) \/ getRankingsRejects(i)

NextFetch ==
  \/ \E v \in {"", JobTitle} : setFilterJobTitle(v)
  \/ retry
  \/ \E i \in 1..MaxInFlight : ServerHandles(i)
  \/ \E i \in 1..MaxInFlight : RequestFails(i)
  \/ \E i \in 1..MaxInFlight : getRankingsResolves(i)
  \/ \E i \in 1..MaxInFlight : getRankingsRejects(i)
  \/ \E view \in LoaderViews, list \in HistoryLists : historyAnswered(view, list)
  \/ \E view \in LoaderViews : historyRequestFails(view)
  \/ \E view \in LoaderViews : fetchResolves(view)
  \/ \E view \in LoaderViews : fetchRejects(view)
  \/ \E view \in LoaderViews : retryFetch(view)

InitFetch == ViewInit /\ HomeInit /\ EngineInit /\ BoardInit /\ LoaderInit

SpecFetch == InitFetch /\ [][NextFetch]_vars

FairSpecFetch ==
  /\ SpecFetch
  /\ WF_vars(RankingsAnswered)
  /\ WF_vars(RankingsSettles)
  /\ \A view \in LoaderViews :
       /\ WF_vars(\E list \in HistoryLists : historyAnswered(view, list))
       /\ WF_vars(fetchResolves(view) \/ fetchRejects(view))

(***************************************************************************)
(* C25: loading and error of the data-loading views                        *)
(***************************************************************************)
\* the getRankings request the Leaderboard awaits
RankingsRequests == {i \in 1..Len(inflight) : inflight[i].kind = "getRankings"}

====
